---- MODULE Spec2Model ----
(***************************************************************************)
(* A model of whisper-real-time: the voice-activity endpointer of vad.rs   *)
(* (Vad, audio_loop), the Whisper buffer of whisper.rs and the receive     *)
(* loop of main.rs.                                                        *)
(*                                                                         *)
(* Audio samples are not modelled by their 16-bit value but by their       *)
(* identity: sample p >= 1 is the p-th sample the audio source delivered,  *)
(* and 0 is a zero (silence) sample written by the program itself.  A      *)
(* buffer is a sequence of runs <<lo, n>>: for lo = 0, n zero samples; for *)
(* lo >= 1 the n consecutive source samples lo, lo+1, .., lo+n-1.  Runs    *)
(* are kept merged, so two buffers hold the same samples in the same order *)
(* exactly when their run sequences are equal.                             *)
(***************************************************************************)
EXTENDS Integers, Sequences, FiniteSets, TLC

VARIABLES
    next_sample,            \* identity of the next sample the audio source delivers
    \* ---- vad.rs: get_microphone_by_name
    device,                 \* what the host reports about the input device asked for
    config,                 \* None, or Some(StreamConfig) once the function returned Ok
    \* ---- vad.rs: struct Vad, audio_loop and its callers' objects
    ring,                   \* Vad.ring: the staging ring (contents)
    ring_cap,               \* capacity of Vad.ring, set by Vad::try_new
    current_frame,          \* Vad.current_frame
    last_speech_frame,      \* Vad.last_speech_frame: None or Some(i)
    current_speech_samples, \* Vad.current_speech_samples
    is_speech,              \* the local is_speech of the last frame output_to classified
    final_ring,             \* the utterance ring behind final_ring / ring_buffer (contents)
    final_cap,              \* its capacity
    activity,               \* the mpsc channel of VadActivity events (queued items)
    pc,                     \* position of audio_loop: "idle", "poll" or "send"; "start" and
                            \* "exit" before and after a failed setup, "panicked"
    status,                 \* the VadStatus output_to returned, not yet matched
    \* ---- the dispatcher of the VadActivity events and whisper.rs: struct Whisper
    consumer,               \* "running", or how the dispatcher died
    last_event,             \* kind of the last event the dispatcher received
    buf,                    \* Whisper.buf (contents)
    samples_in_buf,         \* Whisper.samples_in_buf
    requested_count,        \* the argument of the last call of Whisper::audio_buf
    engine_input,           \* the samples last handed to the transcription engine
    \* ---- the classification stream of the sustained-speech scenario
    speech_fed,             \* speech frames classified so far
    silence_fed,            \* non-speech frames classified after them
    whisper_calls,          \* calls of Whisper::audio_buf made by the direct caller
    \* ---- main.rs: fn whisper
    args,                   \* the command line: file and whisper_cpp, each None or Some
    mic_next,               \* identity of the next sample the microphone delivers
    next_vad_frame,         \* the Vec the input callback stages samples in
    tx,                     \* the mpsc channel of frames (queued items)
    stream,                 \* "playing", "stopped" (dropped, and the sender with it),
                            \* "panicked", or "none" when no stream is built
    speech_segment,         \* None or Some(segment id of the last speech frame)
    segment,                \* segment counter
    accumulator,            \* the 30 s accumulator (contents)
    head,                   \* write position in the accumulator
    predict,                \* the local predict of the last frame received
    decode_arg,             \* the slice last handed to decode_first / decode_bin
    float_samples,          \* the buffer decode_first last handed to the engine
    leftover,               \* Some(leftover of the frame that was split) from the call
                            \* of the closure dispatch on a full accumulator until the
                            \* leftover is written, else None
    main_state              \* fn whisper: "replay" before the file is decoded, "running"
                            \* in the receive loop, "decoding" while a call of the closure
                            \* dispatch waits for the decoder, "reopening" when the closure
                            \* has returned from a forced dispatch, "done" or "panicked"

vadVars == <<ring, ring_cap, current_frame, last_speech_frame, current_speech_samples,
             is_speech, final_ring, final_cap, activity, pc, status>>
dispVars == <<consumer, last_event, buf, samples_in_buf, requested_count, engine_input>>
deviceVars == <<device, config>>
scriptVars == <<speech_fed, silence_fed, whisper_calls>>
callbackVars == <<mic_next, next_vad_frame, tx, stream>>
loopVars == <<args, speech_segment, segment, accumulator, head, predict, decode_arg,
              float_samples, leftover, main_state>>
mainVars == <<callbackVars, loopVars>>
vars == <<next_sample, deviceVars, vadVars, dispVars, scriptVars, mainVars>>

----------------------------------------------------------------------------
(* Program constants *)

ALSA_BUFFER_QAUANTUM == 32
ALSA_BUFFER_MIN == 32
VAD_FRAME == 480
SAMPLE_RATE == 16000
WHISPER_PREPEND_SILENCE == 1600 * 7
MAX_WHISPER_FRAME == (SAMPLE_RATE * 30) - WHISPER_PREPEND_SILENCE
\* main.rs: const HEAD_ZERO, and the length of `accumulator`
HEAD_ZERO == 1600 * 7
ACCUMULATOR_LEN == SAMPLE_RATE * 30

(* Bounds of the model *)

\* frames' worth of samples the audio source delivers in the general specification
MaxFrames == 20
\* capacity of the utterance ring in the general specification
SmallRingCap == 2500
\* frames classified at most in the sustained-speech scenario
SustainedFrames == 1000
\* non-speech frames classified at most in the sustained-speech scenario
SustainedSilence == 10
\* frames' worth of samples delivered in the specification of odd chunk lengths
MaxChunkFrames == 8
\* frames' worth of samples the microphone delivers to the callback of main.rs
MaxMicFrames == 14
\* frames the microphone delivers in the long-speech scenario of main.rs
LongFrames == 1000
\* frames before the accumulator is full in which that scenario lets speech pause
NearFull == 4
\* frames each audio source delivers while the consumers are blocked
BlockedFrames == 9

\* calls of Whisper::audio_buf in the specification of the Whisper buffer
MaxWhisperCalls == 3
\* samples in the short recording of the file replay
FileSamples == 1000
\* frames the microphone delivers in the scenario of speech that never stops
EverFrames == 2940
\* largest channel count a device reports in the specification of the device setup
MaxChannels == 4
\* frames' worth of samples delivered after the device setup
ConfigFrames == 2
\* frames' worth of samples each source delivers in the specification of framing
MaxFitFrames == 6

\* frames' worth of samples delivered in the specification of the loop of audio_loop
MaxLoopFrames == 11
\* frames' worth of samples delivered in chunks within the device buffer size
MaxWithinFrames == 6

----------------------------------------------------------------------------
(* Option<usize> *)

None == <<>>
Some(x) == <<x>>
IsSome(o) == o # <<>>
Unwrap(o) == o[1]

Min(a, b) == IF a <= b THEN a ELSE b
Max(a, b) == IF a >= b THEN a ELSE b

----------------------------------------------------------------------------
(* Slices of samples as sequences of runs *)

\* the slice of the n source samples that start at lo; no run for an empty slice
Samples(lo, n) == IF n > 0 THEN << <<lo, n>> >> ELSE <<>>
Zeros(n) == IF n > 0 THEN << <<0, n>> >> ELSE <<>>

RECURSIVE RLen(_)
RLen(b) == IF b = <<>> THEN 0 ELSE b[1][2] + RLen(Tail(b))

\* run y continues run x
Joins(x, y) == \/ x[1] = 0 /\ y[1] = 0
               \/ x[1] > 0 /\ y[1] = x[1] + x[2]

\* a followed by b
RCat(a, b) ==
    IF a = <<>> THEN b
    ELSE IF b = <<>> THEN a
    ELSE LET x == a[Len(a)]
             y == b[1]
         IN  IF Joins(x, y)
             THEN SubSeq(a, 1, Len(a) - 1) \o << <<x[1], x[2] + y[2]>> >> \o Tail(b)
             ELSE a \o b

\* b[..k]
RECURSIVE RTake(_, _)
RTake(b, k) ==
    IF k <= 0 \/ b = <<>> THEN <<>>
    ELSE IF b[1][2] <= k THEN <<b[1]>> \o RTake(Tail(b), k - b[1][2])
    ELSE << <<b[1][1], k>> >>

\* b[k..]
RECURSIVE RDrop(_, _)
RDrop(b, k) ==
    IF k <= 0 \/ b = <<>> THEN b
    ELSE IF b[1][2] <= k THEN RDrop(Tail(b), k - b[1][2])
    ELSE << <<IF b[1][1] = 0 THEN 0 ELSE b[1][1] + k, b[1][2] - k>> >> \o Tail(b)

\* b with b[at .. at + RLen(data)] overwritten by data (copy_from_slice)
RWrite(b, at, data) ==
    RCat(RCat(RTake(b, at), data), RDrop(b, at + RLen(data)))

----------------------------------------------------------------------------
(* ringbuf: Producer::push_slice and Consumer::pop_slice *)

\* number of samples push_slice delivers: what fits in the vacant part
PushCount(r, cap, data) == Min(cap - RLen(r), RLen(data))

\* the ring after push_slice: the prefix of data that fits is appended
PushSlice(r, cap, data) == RCat(r, RTake(data, PushCount(r, cap, data)))

\* number of samples pop_slice moves into a slice of length n
PopCount(r, n) == Min(RLen(r), n)

----------------------------------------------------------------------------
(* vad.rs: get_microphone_by_name *)

\* u32::next_multiple_of
NextMultipleOf(x, q) == ((x + q - 1) \div q) * q

\* get_microphone_by_name, SupportedBufferSize::Unknown: the fixed buffer size
BufferSizeFor(sample_rate) ==
    Max(NextMultipleOf(sample_rate \div 30, ALSA_BUFFER_QAUANTUM), ALSA_BUFFER_MIN)

\* the buffer size of a device that runs at the target rate
DeviceBufferSize == BufferSizeFor(SAMPLE_RATE)

\* What the host reports about the device asked for: whether a device of that
\* name exists, whether it lists input configurations ("error", "none" or
\* "some"), and of the first configuration the channel count, the range of
\* sample rates and the range of buffer sizes (None for Unknown, or <<min, max>>).
Device(found, configs, channels, min_rate, max_rate, buffer) ==
    [found |-> found, configs |-> configs, channels |-> channels,
     min_rate |-> min_rate, max_rate |-> max_rate, buffer |-> buffer]

\* try_with_sample_rate(SAMPLE_RATE), or else the boundary of the range next to it
ConfigSampleRate(d) ==
    IF d.min_rate <= SAMPLE_RATE /\ SAMPLE_RATE <= d.max_rate THEN SAMPLE_RATE
    ELSE IF d.min_rate > SAMPLE_RATE THEN d.min_rate
    ELSE d.max_rate

\* BufferSize::Fixed(..): the quantized size, clamped into a known range
ConfigBufferSize(d) ==
    IF d.buffer = None THEN BufferSizeFor(ConfigSampleRate(d))
    ELSE Min(Max(BufferSizeFor(ConfigSampleRate(d)), d.buffer[1]), d.buffer[2])

\* `if channels > 2 { return Err(..) }`
RejectsChannels(channels) == channels > 2

StreamConfig(channels, sample_rate, buffer_size) ==
    [channels |-> channels, sample_rate |-> sample_rate, buffer_size |-> buffer_size]

\* get_microphone_by_name: None for Err(InputDeviceUnavailable), Some(config) for Ok
GetMicrophoneByName(d) ==
    IF ~d.found THEN None
    ELSE IF d.configs # "some" THEN None
    ELSE IF RejectsChannels(d.channels) THEN None
    ELSE Some(StreamConfig(d.channels, ConfigSampleRate(d), ConfigBufferSize(d)))

\* audio_loop: `match channels`: 1 passes through, 2 is mixed down, n panics
NormalizesChannels(channels) == channels \in {1, 2}

----------------------------------------------------------------------------
(* vad.rs: Vad *)

\* a Vad::try_new whose staging ring holds one device buffer only
TryNewCapacitySingle(buffer_size) == Max(buffer_size, VAD_FRAME)

\* Vad::try_new: the capacity of the staging ring
TryNewCapacity(buffer_size) == Max(buffer_size * 2, VAD_FRAME * 2)

\* a Vad::input that makes room by overwriting the oldest samples
InputOverwrite(r, cap, samples) ==
    LET all == RCat(r, samples) IN RDrop(all, RLen(all) - cap)

\* Vad::input: the staging ring after the chunk was pushed
Input(r, cap, samples) == PushSlice(r, cap, samples)

\* output_to, inside a silence window: `if !is_speech { continue; }`
StartsUtteranceAlways(speech) == TRUE
StartsUtterance(speech) == speech

\* output_to, speech just started: current_speech_samples = n
StartSamplesRequested(n, frame_len) == frame_len
StartSamples(n, frame_len) == n

\* output_to, inside a speech window: !is_speech && silence_frames >= 8
EndsUtteranceLate(speech, silence_frames) == ~speech /\ silence_frames > 8
EndsUtterance(speech, silence_frames) == ~speech /\ silence_frames >= 8

\* output_to, inside a speech window: is_speech || silence_frames <= 3
RecordsFrameLonger(speech, silence_frames) == speech \/ silence_frames <= 4
RecordsFrameSpeechOnly(speech, silence_frames) == speech
RecordsFrame(speech, silence_frames) == speech \/ silence_frames <= 3

\* output_to, inside a speech window: current_speech_samples += n
AddSamplesRequested(samples, n) == samples + VAD_FRAME
AddSamples(samples, n) == samples + n

\* output_to, SpeechEnd: self.last_speech_frame = None
EndLastSpeechFrameKept == last_speech_frame
EndLastSpeechFrame == None

\* output_to, inside a speech window: if is_speech { *last_speech_frame = current_frame }
NextLastSpeechFrame(last, frame, speech) == IF speech THEN Some(frame) ELSE last

Event(kind, n) == [kind |-> kind, n |-> n]
NoStatus == Event("None", 0)

\* an output_to whose loop waits for two frames
HasFrameOfTwo(r) == RLen(r) >= VAD_FRAME + VAD_FRAME

\* output_to: `while self.ring.occupied_len() >= VAD_FRAME`
HasFrame(r) == RLen(r) >= VAD_FRAME

(* One iteration of the `while` loop of Vad::output_to: a frame is popped from *)
(* the staging ring and classified as speech.  The iteration either returns    *)
(* SpeechStart or SpeechEnd to audio_loop (pc = "send") or continues the loop. *)
VadFrame(speech) ==
    /\ pc = "poll"
    /\ HasFrame(ring)
    /\ LET frame == RTake(ring, VAD_FRAME)
           n == PushCount(final_ring, final_cap, frame)
       IN
       /\ ring' = RDrop(ring, VAD_FRAME)
       /\ is_speech' = speech
       /\ IF ~IsSome(last_speech_frame)
          THEN IF ~StartsUtterance(speech)
               THEN \* inside a silence window: continue
                    UNCHANGED <<current_frame, last_speech_frame, current_speech_samples,
                                final_ring, pc, status>>
               ELSE \* speech just started
                    /\ final_ring' = PushSlice(final_ring, final_cap, frame)
                    /\ last_speech_frame' = Some(0)
                    /\ current_speech_samples' = StartSamples(n, RLen(frame))
                    /\ current_frame' = 0
                    /\ status' = Event("SpeechStart", 0)
                    /\ pc' = "send"
          ELSE LET frame_no == current_frame + 1
                   silence_frames == frame_no - Unwrap(last_speech_frame)
               IN
               /\ current_frame' = frame_no
               /\ IF EndsUtterance(speech, silence_frames)
                  THEN /\ last_speech_frame' = EndLastSpeechFrame
                       /\ status' = Event("SpeechEnd", current_speech_samples)
                       /\ pc' = "send"
                       /\ UNCHANGED <<current_speech_samples, final_ring>>
                  ELSE /\ last_speech_frame' =
                              NextLastSpeechFrame(last_speech_frame, frame_no, speech)
                       /\ IF RecordsFrame(speech, silence_frames)
                          THEN /\ final_ring' = PushSlice(final_ring, final_cap, frame)
                               /\ current_speech_samples' =
                                      AddSamples(current_speech_samples, n)
                          ELSE UNCHANGED <<current_speech_samples, final_ring>>
                       /\ UNCHANGED <<pc, status>>
    /\ UNCHANGED <<next_sample, deviceVars, ring_cap, final_cap, activity, dispVars,
                   mainVars>>

(* Vad::output_to leaves its loop with fewer than VAD_FRAME samples staged and *)
(* returns Speech or Silence; audio_loop breaks.                              *)
VadReturn ==
    /\ pc = "poll"
    /\ ~HasFrame(ring)
    /\ status' = Event(IF IsSome(last_speech_frame) THEN "Speech" ELSE "Silence", 0)
    /\ pc' = "idle"
    /\ UNCHANGED <<next_sample, deviceVars, ring, ring_cap, current_frame, last_speech_frame,
                   current_speech_samples, is_speech, final_ring, final_cap, activity,
                   dispVars, scriptVars, mainVars>>

\* `channel()`: the capacity the channel is created with; std::sync::mpsc
\* gives this channel an infinite buffer, where sync_channel(n) would give Some(n)
ChannelCapacity == None

\* Sender::send: the channel after the item was queued; an error (the receiver
\* has hung up) is dropped by audio_loop
Send(chan, item, receiver_alive) == IF receiver_alive THEN Append(chan, item) ELSE chan

(* audio_loop: a SpeechStart or SpeechEnd returned by output_to is sent, and *)
(* the loop polls output_to again.                                           *)
SendActivity ==
    /\ pc = "send"
    /\ activity' = Send(activity, status, consumer = "running")
    /\ pc' = "poll"
    /\ UNCHANGED <<next_sample, deviceVars, ring, ring_cap, current_frame, last_speech_frame,
                   current_speech_samples, is_speech, final_ring, final_cap, status,
                   dispVars, scriptVars, mainVars>>

(* audio_loop is called with a chunk that is len samples long once it is mono *)
(* and at the target rate: vad.input(&data), then the loop over output_to     *)
(* starts.                                                                    *)
AudioLoop(len) ==
    /\ pc = "idle"
    /\ IsSome(config)
    /\ IF NormalizesChannels(Unwrap(config).channels)
       THEN /\ ring' = Input(ring, ring_cap, Samples(next_sample, len))
            /\ next_sample' = next_sample + len
            /\ pc' = "poll"
       ELSE \* panic!("configs with {n} channels are not supported")
            /\ pc' = "panicked"
            /\ UNCHANGED <<ring, next_sample>>
    /\ UNCHANGED <<deviceVars, ring_cap, current_frame, last_speech_frame, current_speech_samples,
                   is_speech, final_ring, final_cap, activity, status, dispVars,
                   scriptVars, mainVars>>

(* The receiver of the VadActivity events hangs up: from now on every send of *)
(* audio_loop returns an error.                                               *)
HangUp ==
    /\ consumer = "running"
    /\ consumer' = "hung up"
    /\ UNCHANGED <<next_sample, deviceVars, vadVars, last_event, buf, samples_in_buf,
                   requested_count, engine_input, scriptVars, mainVars>>

----------------------------------------------------------------------------
(* whisper.rs: Whisper *)

\* Whisper::audio_buf: assert!(sample_count < MAX_WHISPER_FRAME)
AudioBufAccepts(sample_count) == sample_count < MAX_WHISPER_FRAME

\* Whisper::audio_buf: buf after the returned slice, which starts behind the
\* pre-roll, was filled with data
AudioBufWrite(b, data) == RWrite(b, WHISPER_PREPEND_SILENCE, data)

\* Whisper::transcribe: the early return for audio of less than one second
TranscribeSkips(samples) == samples < SAMPLE_RATE - WHISPER_PREPEND_SILENCE

\* Whisper::transcribe: the samples handed to the engine
TranscribeInput(b, samples) == RTake(b, WHISPER_PREPEND_SILENCE + samples)

(* The dispatcher receives one VadActivity event.  On SpeechEnd(n) it pops n *)
(* samples from the utterance ring into Whisper::audio_buf(n) and calls      *)
(* Whisper::transcribe; fewer than n samples in the ring is the fatal        *)
(* desynchronization error.                                                  *)
Dispatch ==
    /\ consumer = "running"
    /\ activity # <<>>
    /\ LET e == Head(activity)
           k == PopCount(final_ring, e.n)
           filled == AudioBufWrite(buf, RTake(final_ring, k))
       IN
       /\ activity' = Tail(activity)
       /\ last_event' = e.kind
       /\ IF e.kind = "SpeechStart"
          THEN UNCHANGED <<consumer, buf, samples_in_buf, requested_count, engine_input,
                           final_ring>>
          ELSE IF ~AudioBufAccepts(e.n)
          THEN /\ consumer' = "audio_buf assertion failed"
               /\ requested_count' = e.n
               /\ UNCHANGED <<buf, samples_in_buf, engine_input, final_ring>>
          ELSE /\ samples_in_buf' = e.n
               /\ requested_count' = e.n
               /\ final_ring' = RDrop(final_ring, k)
               /\ buf' = filled
               /\ IF k # e.n
                  THEN /\ consumer' = "desynchronized"
                       /\ UNCHANGED engine_input
                  ELSE /\ UNCHANGED consumer
                       /\ engine_input' = IF TranscribeSkips(e.n) THEN <<>>
                                          ELSE TranscribeInput(filled, e.n)
    /\ UNCHANGED <<next_sample, deviceVars, ring, ring_cap, current_frame, last_speech_frame,
                   current_speech_samples, is_speech, final_cap, pc, status, scriptVars,
                   mainVars>>

(* The owner of a Whisper calls audio_buf(n) and, when it returns, writes the *)
(* whole slice with the next n samples of the audio source.                   *)
AudioBuf(n) ==
    /\ consumer = "running"
    /\ requested_count' = n
    /\ whisper_calls' = whisper_calls + 1
    /\ IF AudioBufAccepts(n)
       THEN /\ samples_in_buf' = n
            /\ buf' = AudioBufWrite(buf, Samples(next_sample, n))
            /\ next_sample' = next_sample + n
            /\ UNCHANGED consumer
       ELSE \* the assertion fails
            /\ consumer' = "audio_buf assertion failed"
            /\ UNCHANGED <<buf, samples_in_buf, next_sample>>
    /\ UNCHANGED <<deviceVars, vadVars, last_event, engine_input, speech_fed, silence_fed,
                   mainVars>>

(* The owner of a Whisper calls transcribe: the engine runs on the pre-roll and *)
(* the registered samples, or not at all.                                      *)
Transcribe ==
    /\ consumer = "running"
    /\ whisper_calls > 0
    /\ engine_input' = IF TranscribeSkips(samples_in_buf) THEN <<>>
                       ELSE TranscribeInput(buf, samples_in_buf)
    /\ UNCHANGED <<next_sample, deviceVars, vadVars, consumer, last_event, buf,
                   samples_in_buf, requested_count, scriptVars, mainVars>>

(* The program asks for its device and, on Ok, builds the Vad for the stream *)
(* configuration; on Err it reports the error and exits.                     *)
Setup ==
    /\ pc = "start"
    /\ config' = GetMicrophoneByName(device)
    /\ IF IsSome(config')
       THEN /\ ring_cap' = TryNewCapacity(Unwrap(config').buffer_size)
            /\ pc' = "idle"
       ELSE /\ pc' = "exit"
            /\ UNCHANGED ring_cap
    /\ UNCHANGED <<next_sample, device, ring, current_frame, last_speech_frame,
                   current_speech_samples, is_speech, final_ring, final_cap, activity,
                   status, dispVars, scriptVars, mainVars>>

----------------------------------------------------------------------------
(* main.rs: fn whisper, the input callback *)

\* a callback that takes a whole frame's worth of samples whatever is staged
FreeWhole(staged) == 480

\* `let free = 480 - next_vad_frame.len()`
Free(staged) == 480 - RLen(staged)

\* the result of the callback's `while available > 0` loop on the samples `data`:
\* the staged samples, the channel, and whether every send succeeded
RECURSIVE CallbackLoop(_, _, _, _)
CallbackLoop(staged, data, chan, receiver_alive) ==
    IF RLen(data) = 0
    THEN [staged |-> staged, chan |-> chan, ok |-> TRUE]
    ELSE LET free == Free(staged)
             used == Min(free, RLen(data))
             extended == RCat(staged, RTake(data, used))
         IN  IF RLen(extended) = 480
             THEN IF receiver_alive
                  THEN CallbackLoop(<<>>, RDrop(data, used),
                                    Send(chan, extended, TRUE), receiver_alive)
                  ELSE \* expect("should be able to send vad frame") panics
                       [staged |-> extended, chan |-> chan, ok |-> FALSE]
             ELSE CallbackLoop(extended, RDrop(data, used), chan, receiver_alive)

\* `rx` is declared before `stream` in fn whisper, so it is dropped after the
\* stream on return and on unwinding alike: the receiver is alive for as long as
\* the stream exists and calls the callback
ReceiverAlive == stream = "playing"

(* The audio stream calls the input callback with a chunk of len samples. *)
Callback(len) ==
    /\ stream = "playing"
    /\ LET r == CallbackLoop(next_vad_frame, Samples(mic_next, len), tx, ReceiverAlive)
       IN  /\ next_vad_frame' = r.staged
           /\ tx' = r.chan
           /\ stream' = IF r.ok THEN stream ELSE "panicked"
    /\ mic_next' = mic_next + len
    /\ UNCHANGED <<next_sample, deviceVars, vadVars, dispVars, scriptVars, loopVars>>

(* The stream is dropped: the callback, and with it the sender, is gone.  On   *)
(* return and on unwinding of fn whisper this comes before the drop of `rx`. *)
StopStream ==
    /\ stream = "playing"
    /\ stream' = "stopped"
    /\ UNCHANGED <<next_sample, deviceVars, vadVars, dispVars, scriptVars, loopVars,
                   mic_next, next_vad_frame, tx>>

----------------------------------------------------------------------------
(* main.rs: fn whisper, the receive loop *)

\* `if speech_segment.is_some() { segment += 1; }`
NextSegment(last, seg) == IF IsSome(last) THEN seg + 1 ELSE seg

\* `speech_segment.is_some_and(|last| segment - last <= 3)`
KeepsRecording(last, seg) == IsSome(last) /\ seg - Unwrap(last) <= 3

\* `speech_segment.is_some_and(|last| segment - last > 8)`
StopsListening(last, seg) == IsSome(last) /\ seg - Unwrap(last) > 8

\* a loop that never splits a frame
OverflowNone(h, len) == h - h

\* `(head + partial.len()).saturating_sub(accumulator.len())`
Overflow(h, len) == Max(h + len - ACCUMULATOR_LEN, 0)

\* the closure `dispatch`: the slice handed to decode_first or decode_bin
DispatchSlice(acc, h) == RTake(acc, h)

\* the closure `dispatch`: `accumulator.fill(0)`
DispatchFill == Zeros(ACCUMULATOR_LEN)

\* the closure `dispatch`: `*head = HEAD_ZERO`
DispatchHead == HEAD_ZERO

\* after the forced dispatch: `speech_segment = Some(segment)`
ReopenedSegment(seg) == Some(seg)

\* decode_first: `&mut float_samples[..samples.len()]` is out of range
DecodeFirstPanics(samples) == RLen(samples) > SAMPLE_RATE * 30

\* decode_first: the buffer `float_samples` of 30 s handed to the engine, the
\* samples followed by the zeros the buffer was built with
FloatSamples(samples) == RCat(samples, Zeros(SAMPLE_RATE * 30 - RLen(samples)))

(* `match args.whisper_cpp.clone()`: the samples are handed to decode_bin, which *)
(* pipes them to the whisper.cpp binary, or to decode_first, which runs the     *)
(* engine on float_samples; the caller is in state `waiting` until the decoder  *)
(* is done.                                                                     *)
Decode(samples, waiting) ==
    /\ decode_arg' = samples
    /\ IF IsSome(args.whisper_cpp)
       THEN /\ main_state' = waiting
            /\ UNCHANGED float_samples
       ELSE IF DecodeFirstPanics(samples)
       THEN /\ main_state' = "panicked"
            /\ UNCHANGED float_samples
       ELSE /\ main_state' = waiting
            /\ float_samples' = FloatSamples(samples)

(* `if let Some(file) = args.file`: the samples of the file are decoded as they *)
(* are, and fn whisper returns.                                                 *)
ReplayFile ==
    /\ main_state = "replay"
    /\ Decode(Samples(1, Unwrap(args.file)), "done")
    /\ UNCHANGED <<next_sample, deviceVars, vadVars, dispVars, scriptVars, callbackVars,
                   args, speech_segment, segment, accumulator, head, predict, leftover>>

(* One iteration of `while let Ok(partial) = rx.recv()`: a frame is received *)
(* and classified as p.  An iteration that calls the closure dispatch goes   *)
(* as far as the call of the decoder, which DispatchReturn completes.        *)
Recv(p) ==
    /\ main_state = "running"
    /\ tx # <<>>
    /\ LET partial == Head(tx)
           seg == NextSegment(speech_segment, segment)
           skipped == ~p /\ ~KeepsRecording(speech_segment, seg)
           last == IF p THEN Some(seg) ELSE speech_segment
           overflow == Overflow(head, RLen(partial))
           max == RLen(partial) - overflow
           used == RTake(partial, max)
           written == RWrite(accumulator, head, used)
       IN
       /\ tx' = Tail(tx)
       /\ predict' = p
       /\ segment' = seg
       /\ IF skipped
          THEN IF StopsListening(speech_segment, seg)
               THEN \* 8 segments of non speech: stop listening and dispatch
                    /\ Decode(DispatchSlice(accumulator, head), "decoding")
                    /\ leftover' = None
                    /\ UNCHANGED <<speech_segment, accumulator, head>>
               ELSE \* skip the sample
                    /\ UNCHANGED <<speech_segment, accumulator, head, decode_arg,
                                   float_samples, leftover, main_state>>
          ELSE IF head < ACCUMULATOR_LEN
          THEN /\ accumulator' = written
               /\ head' = head + max
               /\ speech_segment' = last
               /\ IF max < RLen(partial)
                  THEN \* the frame does not fit: dispatch what the accumulator holds
                       /\ Decode(DispatchSlice(written, head + max), "decoding")
                       /\ leftover' = Some(RDrop(partial, max))
                  ELSE UNCHANGED <<decode_arg, float_samples, leftover, main_state>>
          ELSE \* panic!("should not be reachable")
               /\ main_state' = "panicked"
               /\ speech_segment' = last
               /\ UNCHANGED <<accumulator, head, decode_arg, float_samples, leftover>>
    /\ UNCHANGED <<next_sample, deviceVars, vadVars, dispVars, scriptVars,
                   args, mic_next, next_vad_frame, stream>>

(* The decoder is done: the closure dispatch resets the accumulator, head,   *)
(* speech_segment and segment and returns.  After a dispatch at the end of   *)
(* an utterance the iteration ends (`continue`); after a forced dispatch the *)
(* leftover of the frame is still to be written.                             *)
DispatchReturn ==
    /\ main_state = "decoding"
    /\ accumulator' = DispatchFill
    /\ head' = DispatchHead
    /\ speech_segment' = None
    /\ segment' = 0
    /\ main_state' = IF IsSome(leftover) THEN "reopening" ELSE "running"
    /\ UNCHANGED <<next_sample, deviceVars, vadVars, dispVars, scriptVars, callbackVars,
                   args, predict, decode_arg, float_samples, leftover>>

(* After the forced dispatch: the leftover of the frame is written behind the *)
(* pre-roll, the speech window is reopened, and the iteration ends.           *)
WriteLeftover ==
    /\ main_state = "reopening"
    /\ accumulator' = RWrite(accumulator, head, Unwrap(leftover))
    /\ head' = head + RLen(Unwrap(leftover))
    /\ speech_segment' = ReopenedSegment(segment)
    /\ leftover' = None
    /\ main_state' = "running"
    /\ UNCHANGED <<next_sample, deviceVars, vadVars, dispVars, scriptVars, callbackVars,
                   args, segment, predict, decode_arg, float_samples>>

(* rx.recv() returns Err: the channel is empty and the sender was dropped. *)
LoopExit ==
    /\ main_state = "running"
    /\ tx = <<>>
    /\ stream # "playing"
    /\ main_state' = "done"
    /\ UNCHANGED <<next_sample, deviceVars, vadVars, dispVars, scriptVars, callbackVars,
                   args, speech_segment, segment, accumulator, head, predict, decode_arg,
                   float_samples, leftover>>

\* the command line: --file with a recording of so many samples or None, and
\* --whisper-cpp with the path of the binary or None
Args(file, whisper_cpp) == [file |-> file, whisper_cpp |-> whisper_cpp]

\* the microphone stream, decoded by decode_first
StreamArgs == Args(None, None)

\* fn whisper for the command line a: with a file, before the file is read;
\* without, at the first rx.recv() of the receive loop
InitMain(a) ==
    /\ args = a
    /\ mic_next = 1
    /\ next_vad_frame = <<>>
    /\ tx = <<>>
    /\ stream = IF IsSome(a.file) THEN "none" ELSE "playing"
    /\ speech_segment = None
    /\ segment = 0
    /\ accumulator = Zeros(ACCUMULATOR_LEN)
    /\ head = HEAD_ZERO
    /\ predict = FALSE
    /\ decode_arg = <<>>
    /\ float_samples = <<>>
    /\ leftover = None
    /\ main_state = IF IsSome(a.file) THEN "replay" ELSE "running"

----------------------------------------------------------------------------
(* Initial states: the objects as Vad::try_new and Whisper::with_options *)
(* build them, for a device buffer size and an utterance ring capacity.  *)

\* the objects before the device is configured
InitObjects(caps, arguments) ==
    /\ next_sample = 1
    /\ ring = <<>>
    /\ current_frame = 0
    /\ last_speech_frame = None
    /\ current_speech_samples = 0
    /\ is_speech = FALSE
    /\ final_ring = <<>>
    /\ final_cap \in caps
    /\ activity = <<>>
    /\ status = NoStatus
    /\ consumer = "running"
    /\ last_event = "None"
    /\ buf = Zeros(WHISPER_PREPEND_SILENCE + MAX_WHISPER_FRAME)
    /\ samples_in_buf = 0
    /\ requested_count = 0
    /\ engine_input = <<>>
    /\ speech_fed = 0
    /\ silence_fed = 0
    /\ whisper_calls = 0
    /\ \E a \in arguments : InitMain(a)

\* a mono device at the target rate with a fixed buffer size was configured, and
\* the stream runs
InitVadArgs(buffer_sizes, caps, arguments) ==
    /\ device \in {Device(TRUE, "some", 1, SAMPLE_RATE, SAMPLE_RATE, <<b, b>>) :
                       b \in buffer_sizes}
    /\ config = GetMicrophoneByName(device)
    /\ ring_cap = TryNewCapacity(Unwrap(config).buffer_size)
    /\ pc = "idle"
    /\ InitObjects(caps, arguments)

InitVad(buffer_sizes, caps) == InitVadArgs(buffer_sizes, caps, {StreamArgs})

----------------------------------------------------------------------------
(* Spec: the endpointer and the dispatcher under every classification stream *)
(* and every interleaving, with whole frames delivered and an utterance ring *)
(* small enough to fill up.                                                  *)

ChunkLens == {VAD_FRAME, 2 * VAD_FRAME}

Init == InitVad({DeviceBufferSize}, {SmallRingCap})

Feed ==
    \E len \in ChunkLens :
        /\ next_sample - 1 + len <= MaxFrames * VAD_FRAME
        /\ AudioLoop(len)

Classify ==
    \E speech \in BOOLEAN :
        /\ VadFrame(speech)
        /\ UNCHANGED scriptVars

Next == Feed \/ Classify \/ VadReturn \/ SendActivity \/ Dispatch

Spec == Init /\ [][Next]_vars

----------------------------------------------------------------------------
(* SpecChunks: the same, with chunks of lengths that are no multiple of the *)
(* frame and may exceed the room of the staging ring.                       *)

OddChunkLens == {160, 544, 1000}

InitChunks == InitVad({VAD_FRAME, DeviceBufferSize}, {SmallRingCap})

FeedChunk ==
    \E len \in OddChunkLens :
        /\ next_sample - 1 + len <= MaxChunkFrames * VAD_FRAME
        /\ AudioLoop(len)

NextChunks == FeedChunk \/ Classify \/ VadReturn \/ SendActivity \/ Dispatch

SpecChunks == InitChunks /\ [][NextChunks]_vars

----------------------------------------------------------------------------
(* SpecSustained: starting from Idle the classifier answers true for k >= 1 *)
(* frames and then false; the utterance ring has the capacity of the        *)
(* Whisper buffer behind the pre-roll.  SpecScript is the same scenario     *)
(* with the dispatcher blocked, so that every event sent stays queued.      *)

InitSustained == InitVad({DeviceBufferSize}, {MAX_WHISPER_FRAME})

FeedFrame ==
    /\ speech_fed + silence_fed < SustainedFrames
    /\ AudioLoop(VAD_FRAME)

ClassifySpeech ==
    /\ silence_fed = 0
    /\ VadFrame(TRUE)
    /\ speech_fed' = speech_fed + 1
    /\ UNCHANGED <<silence_fed, whisper_calls>>

ClassifySilence ==
    /\ speech_fed >= 1
    /\ silence_fed < SustainedSilence
    /\ VadFrame(FALSE)
    /\ silence_fed' = silence_fed + 1
    /\ UNCHANGED <<speech_fed, whisper_calls>>

NextScript == FeedFrame \/ ClassifySpeech \/ ClassifySilence \/ VadReturn \/ SendActivity

SpecScript == InitSustained /\ [][NextScript]_vars

NextSustained == NextScript \/ Dispatch

SpecSustained == InitSustained /\ [][NextSustained]_vars

----------------------------------------------------------------------------
(* SpecSilent: the classifier answers false on every frame. *)

ClassifyFalse ==
    /\ VadFrame(FALSE)
    /\ UNCHANGED scriptVars

NextSilent == FeedChunk \/ ClassifyFalse \/ VadReturn

SpecSilent == InitChunks /\ [][NextSilent]_vars

----------------------------------------------------------------------------
(* SpecMain: the input callback and the receive loop of main.rs under every *)
(* classification stream and every interleaving.                            *)

MicChunkLens == {160, VAD_FRAME, 1000}

Microphone ==
    \E len \in MicChunkLens :
        /\ mic_next - 1 + len <= MaxMicFrames * VAD_FRAME
        /\ Callback(len)

Receive == \E p \in BOOLEAN : Recv(p)

\* the microphone stream with either decoder
InitMainStream ==
    InitVadArgs({DeviceBufferSize}, {SmallRingCap},
                {Args(None, bin) : bin \in {None, Some("whisper.cpp")}})

NextMain == Microphone \/ Receive \/ DispatchReturn

SpecMain == InitMainStream /\ [][NextMain]_vars

----------------------------------------------------------------------------
(* SpecMainLong: main.rs under speech that goes on until the accumulator is *)
(* full; only in the last frames before that may the classifier answer      *)
(* false.  The microphone delivers whole frames, one at a time.             *)

MicrophoneFrame ==
    /\ tx = <<>>
    /\ mic_next - 1 < LongFrames * VAD_FRAME
    /\ Callback(VAD_FRAME)

ReceiveSpeech == Recv(TRUE)

ReceivePause ==
    /\ ACCUMULATOR_LEN - head <= NearFull * VAD_FRAME
    /\ Recv(FALSE)

NextMainLong ==
    MicrophoneFrame \/ ReceiveSpeech \/ ReceivePause \/ DispatchReturn \/ WriteLeftover

SpecMainLong == Init /\ [][NextMainLong]_vars

----------------------------------------------------------------------------
(* SpecBlocked: the producers of both channels run while the consumers are *)
(* blocked in transcription and receive nothing.                           *)

BlockedMicrophone ==
    \E len \in {VAD_FRAME, 1000} :
        /\ mic_next - 1 + len <= BlockedFrames * VAD_FRAME
        /\ Callback(len)

BlockedFeed ==
    /\ next_sample - 1 < BlockedFrames * VAD_FRAME
    /\ AudioLoop(VAD_FRAME)

NextBlocked == BlockedMicrophone \/ BlockedFeed \/ Classify \/ VadReturn \/ SendActivity

SpecBlocked == Init /\ [][NextBlocked]_vars

----------------------------------------------------------------------------
(* SpecWhisper: the owner of a Whisper calls audio_buf and transcribe with *)
(* sample counts around the limits of the buffer.                          *)

SampleCounts ==
    {0, 1, VAD_FRAME,
     SAMPLE_RATE - WHISPER_PREPEND_SILENCE - 1, SAMPLE_RATE - WHISPER_PREPEND_SILENCE,
     MAX_WHISPER_FRAME - 1, MAX_WHISPER_FRAME, MAX_WHISPER_FRAME + 1}

AudioBufCall ==
    \E n \in SampleCounts :
        /\ whisper_calls < MaxWhisperCalls
        /\ AudioBuf(n)

NextWhisper == AudioBufCall \/ Transcribe

SpecWhisper == InitSustained /\ [][NextWhisper]_vars

----------------------------------------------------------------------------
(* SpecPreRoll: the receive loop of main.rs through forced dispatches and  *)
(* dispatches at the end of speech, and a Whisper called by its owner.     *)

PreRollCounts == {VAD_FRAME, SAMPLE_RATE, MAX_WHISPER_FRAME - 1}

AudioBufFill ==
    \E n \in PreRollCounts :
        /\ whisper_calls < MaxWhisperCalls
        /\ AudioBuf(n)

\* samples in the file of --file: a short recording, and recordings of 30 s and
\* of one sample more
FileLens == {FileSamples, SAMPLE_RATE * 30, SAMPLE_RATE * 30 + 1}

\* the microphone stream, or a file with either decoder
InitPreRoll ==
    InitVadArgs({DeviceBufferSize}, {MAX_WHISPER_FRAME},
                {StreamArgs} \cup {Args(Some(n), bin) :
                                      n \in FileLens, bin \in {None, Some("whisper.cpp")}})

NextPreRoll == ReplayFile \/ NextMainLong \/ AudioBufFill \/ Transcribe

SpecPreRoll == InitPreRoll /\ [][NextPreRoll]_vars

----------------------------------------------------------------------------
(* SpecForever: main.rs under speech that does not stop for three turns of *)
(* the accumulator; the stream may be stopped at any time.                 *)

MicrophoneFrameEver ==
    /\ tx = <<>>
    /\ mic_next - 1 < EverFrames * VAD_FRAME
    /\ Callback(VAD_FRAME)

NextForever ==
    MicrophoneFrameEver \/ ReceiveSpeech \/ ReceivePause \/ DispatchReturn
        \/ WriteLeftover \/ StopStream \/ LoopExit

SpecForever == Init /\ [][NextForever]_vars

----------------------------------------------------------------------------
(* SpecConfig: the device setup for every kind of device, followed by the *)
(* first chunks of the stream.                                            *)

RateRanges == {<<8000, 8000>>, <<SAMPLE_RATE, SAMPLE_RATE>>, <<8000, 48000>>, <<44100, 48000>>}

BufferRanges == {None, <<64, 256>>, <<VAD_FRAME, VAD_FRAME>>, <<1024, 4096>>}

Devices ==
    {Device(f, c, ch, r[1], r[2], b) :
        f \in BOOLEAN, c \in {"error", "none", "some"}, ch \in 0..MaxChannels,
        r \in RateRanges, b \in BufferRanges}

InitConfig ==
    /\ device \in Devices
    /\ config = None
    /\ ring_cap = 0
    /\ pc = "start"
    /\ InitObjects({SmallRingCap}, {StreamArgs})

FeedConfigured ==
    /\ next_sample - 1 < ConfigFrames * VAD_FRAME
    /\ AudioLoop(VAD_FRAME)

NextConfig == Setup \/ FeedConfigured \/ Classify \/ VadReturn \/ SendActivity

SpecConfig == InitConfig /\ [][NextConfig]_vars

----------------------------------------------------------------------------
(* SpecFrames: both frame accumulators under chunks of lengths that are no   *)
(* multiple of the frame; the chunks of Vad::input fit the staging ring, and *)
(* the receive loop of main.rs is blocked.                                   *)

FitChunkLens == {160, VAD_FRAME, DeviceBufferSize}

FeedFitting ==
    \E len \in FitChunkLens :
        /\ next_sample - 1 + len <= MaxFitFrames * VAD_FRAME
        /\ AudioLoop(len)

MicrophoneChunk ==
    \E len \in MicChunkLens :
        /\ mic_next - 1 + len <= MaxFitFrames * VAD_FRAME
        /\ Callback(len)

NextFrames == MicrophoneChunk \/ FeedFitting \/ Classify \/ VadReturn \/ SendActivity

SpecFrames == Init /\ [][NextFrames]_vars

----------------------------------------------------------------------------
(* SpecLoop: audio_loop on chunks of one frame and of more than two frames, *)
(* which may exceed the room of the staging ring, with a receiver of the    *)
(* events that only queues them and may hang up at any time.  SpecLoopFair  *)
(* adds that a call of audio_loop that has started keeps running.           *)

LoopChunkLens == {VAD_FRAME, 1000}

FeedLoop ==
    \E len \in LoopChunkLens :
        /\ next_sample - 1 + len <= MaxLoopFrames * VAD_FRAME
        /\ AudioLoop(len)

LoopStep == Classify \/ VadReturn \/ SendActivity

NextLoop == FeedLoop \/ LoopStep \/ HangUp

SpecLoop == Init /\ [][NextLoop]_vars

SpecLoopFair == SpecLoop /\ WF_vars(LoopStep)

----------------------------------------------------------------------------
(* SpecWithin: audio_loop on chunks of at most buffer_size samples, for device *)
(* buffer sizes below, at and above the frame.                                 *)

WithinBufferSizes == {ALSA_BUFFER_MIN, VAD_FRAME - 1, VAD_FRAME, VAD_FRAME + 1, DeviceBufferSize}

InitWithin == InitVad(WithinBufferSizes, {SmallRingCap})

FeedWithin ==
    \E len \in {ALSA_BUFFER_MIN, VAD_FRAME - 1, Unwrap(config).buffer_size} :
        /\ len <= Unwrap(config).buffer_size
        /\ next_sample - 1 + len <= MaxWithinFrames * VAD_FRAME
        /\ AudioLoop(len)

NextWithin == FeedWithin \/ Classify \/ VadReturn \/ SendActivity

SpecWithin == InitWithin /\ [][NextWithin]_vars

----------------------------------------------------------------------------
(* Vocabulary of the properties *)

Kinds(chan) == [i \in 1..Len(chan) |-> chan[i].kind]

\* the event output_to has returned and audio_loop has not sent yet
Returned == IF pc = "send" THEN <<status>> ELSE <<>>

\* the events emitted and not yet received, in emission order
InFlight == activity \o Returned

\* kinds of the last event received and of the events in flight, in order; before
\* the first event the dispatcher is where a SpeechEnd leaves it
EventKinds ==
    <<IF last_event = "None" THEN "SpeechEnd" ELSE last_event>> \o Kinds(InFlight)

Alternates(kinds) ==
    /\ \A i \in 1..Len(kinds) : kinds[i] \in {"SpeechStart", "SpeechEnd"}
    /\ \A i \in 1..(Len(kinds) - 1) : kinds[i] # kinds[i + 1]

\* a step that is one iteration of the loop of output_to: a frame left the staging ring
FrameStep == RLen(ring') < RLen(ring)

\* samples the step wrote into the utterance ring
Written == RLen(final_ring') - RLen(final_ring)

\* the step returned SpeechEnd
EndStep == FrameStep /\ pc' = "send" /\ status'.kind = "SpeechEnd"

\* identity of the last sample of a non-empty buffer
LastSample(b) == b[Len(b)][1] + b[Len(b)][2] - 1

----------------------------------------------------------------------------
(* C1: the events the dispatcher receives, followed by those in flight, strictly *)
(* alternate and start with SpeechStart: no two SpeechStart and no two SpeechEnd *)
(* are adjacent, and the last event emitted is a SpeechStart exactly while an    *)
(* utterance is open in the endpointer.                                          *)
C1_EventsAlternate ==
    /\ Alternates(EventKinds)
    /\ consumer = "running" =>
           (EventKinds[Len(EventKinds)] = "SpeechStart" <=> IsSome(last_speech_frame))

\* a whole utterance was received and a second one is queued behind it
C1_Witness ==
    /\ last_event = "SpeechEnd"
    /\ Kinds(activity) = <<"SpeechStart", "SpeechEnd">>

(* C2: the dispatcher never finds fewer samples in the utterance ring than the *)
(* SpeechEnd(n) it handles reports: the desynchronization error is unreachable *)
(* and the ring holds at least n samples whenever SpeechEnd(n) is next in the  *)
(* channel.                                                                    *)
C2_NoDesync ==
    /\ consumer # "desynchronized"
    /\ (activity # <<>> /\ Head(activity).kind = "SpeechEnd") =>
           RLen(final_ring) >= Head(activity).n

\* two utterances are pending, SpeechEnd is next, and the ring is full
C2_Witness ==
    /\ Len(activity) >= 3
    /\ Kinds(activity)[1] = "SpeechEnd" /\ activity[1].n > 0
    /\ Kinds(activity)[3] = "SpeechEnd" /\ activity[3].n > 0
    /\ RLen(final_ring) = final_cap

(* C3: every iteration of output_to counts exactly what its push delivered: at *)
(* SpeechStart current_speech_samples is the number of samples written by that *)
(* step, inside the speech window it grows by the number written, a step that  *)
(* leaves no utterance open writes nothing, and SpeechEnd carries the count.   *)
C3_CountIsWritten ==
    [][FrameStep =>
        /\ (~IsSome(last_speech_frame) /\ IsSome(last_speech_frame')) =>
               current_speech_samples' = Written
        /\ (IsSome(last_speech_frame) /\ IsSome(last_speech_frame')) =>
               current_speech_samples' = current_speech_samples + Written
        /\ ~IsSome(last_speech_frame') => Written = 0
        /\ (IsSome(last_speech_frame) /\ ~IsSome(last_speech_frame')) =>
               status' = Event("SpeechEnd", current_speech_samples)
      ]_vars

\* a SpeechEnd whose count includes a push that was cut short by the full ring
C3_Witness ==
    /\ pc = "send" /\ status.kind = "SpeechEnd"
    /\ status.n % VAD_FRAME # 0
    /\ RLen(final_ring) = final_cap

(* C4: every SpeechEnd(n) emitted has n below MAX_WHISPER_FRAME, and the *)
(* assertion of Whisper::audio_buf never fails on it.                    *)
C4_BelowMaxWhisperFrame ==
    /\ \A i \in 1..Len(InFlight) :
           InFlight[i].kind = "SpeechEnd" => InFlight[i].n < MAX_WHISPER_FRAME
    /\ consumer # "audio_buf assertion failed"

(* C6, as claimed: after k speech frames and at least 8 non-speech frames the *)
(* SpeechEnd(n) has n = pre-roll + samples of the k speech frames and of the  *)
(* silence frames recorded.                                                   *)
C6_CountIncludesPreRoll ==
    Len(activity) = 2 =>
        activity[2].n = WHISPER_PREPEND_SILENCE + VAD_FRAME * (speech_fed + 3)

(* C6, amended: after k speech frames and at least 8 non-speech frames exactly *)
(* SpeechStart and SpeechEnd(n) were emitted, with n the samples of the k      *)
(* speech frames and of the 3 silence frames recorded, without the pre-roll    *)
(* (while n fits the utterance ring); before that only SpeechStart.            *)
C6_OneUtterance ==
    /\ Len(InFlight) <= 2
    /\ speech_fed = 0 => InFlight = <<>>
    /\ (speech_fed >= 1 /\ silence_fed < 8) => InFlight = <<Event("SpeechStart", 0)>>
    /\ silence_fed >= 8 =>
           /\ Kinds(InFlight) = <<"SpeechStart", "SpeechEnd">>
           /\ VAD_FRAME * (speech_fed + 3) <= final_cap =>
                  InFlight[2].n = VAD_FRAME * (speech_fed + 3)

\* both events are queued after several speech frames and more than 8 silence frames
C6_Witness ==
    /\ speech_fed >= 2 /\ silence_fed > 8
    /\ Kinds(activity) = <<"SpeechStart", "SpeechEnd">>

(* C7: inside a speech window an iteration of output_to returns SpeechEnd     *)
(* exactly when the frame is non-speech and its silence run (frames since the *)
(* last speech frame) is at least 8; otherwise the utterance stays open, and  *)
(* a speech frame restarts the silence run from zero.  The silence run of an  *)
(* open utterance is therefore below 8.                                       *)
C7_EndExactlyAtEight ==
    /\ [](IsSome(last_speech_frame) => current_frame - Unwrap(last_speech_frame) < 8)
    /\ [][(FrameStep /\ IsSome(last_speech_frame)) =>
            LET silence_run == current_frame + 1 - Unwrap(last_speech_frame)
            IN  /\ current_frame' = current_frame + 1
                /\ EndStep <=> (~is_speech' /\ silence_run >= 8)
                /\ ~EndStep <=> IsSome(last_speech_frame')
                /\ is_speech' => last_speech_frame' = Some(current_frame')
                /\ (~is_speech' /\ ~EndStep) => last_speech_frame' = last_speech_frame
         ]_vars

\* an utterance was kept open through a pause of 7 frames and has ended 8
\* non-speech frames after it went on
C7_Witness ==
    /\ pc = "send" /\ status.kind = "SpeechEnd"
    /\ current_frame = 16
    /\ ~is_speech

(* C8: under a classification stream that is false on every frame no event *)
(* is emitted, nothing is pushed into the utterance ring and no utterance   *)
(* opens.                                                                   *)
C8_SilenceHasNoEffect ==
    /\ activity = <<>>
    /\ pc # "send"
    /\ final_ring = <<>>
    /\ last_speech_frame = None
    /\ current_speech_samples = 0 /\ current_frame = 0

\* several frames were classified and consumed
C8_Witness ==
    /\ next_sample > 4 * VAD_FRAME
    /\ pc = "idle"
    /\ ~is_speech

(* C9: a push into a ring without enough room writes the prefix that fits and  *)
(* drops the rest: after Vad::input the staging ring is its old contents       *)
(* followed by the first samples of the chunk, as many as fit; after an        *)
(* iteration of output_to the utterance ring is its old contents followed by   *)
(* the first samples of the frame.  The producer never waits: with a full ring *)
(* the next step of audio_loop is still enabled.                               *)
C9_DropNewest ==
    /\ [](pc = "poll" => ENABLED (Classify \/ VadReturn))
    /\ [](pc = "send" => ENABLED SendActivity)
    /\ [][(pc = "idle" /\ pc' = "poll") =>
            LET added == RLen(ring') - RLen(ring)
            IN  /\ added = Min(ring_cap - RLen(ring), next_sample' - next_sample)
                /\ ring' = RCat(ring, Samples(next_sample, added))
         ]_vars
    /\ [][FrameStep =>
            /\ Written >= 0
            /\ RLen(final_ring') <= final_cap
            /\ final_ring' = RCat(final_ring, RTake(RTake(ring, VAD_FRAME), Written))
         ]_vars

\* the staging ring is full and the newest samples of the chunk were dropped
C9_Witness ==
    /\ pc = "poll"
    /\ RLen(ring) = ring_cap
    /\ LastSample(ring) < next_sample - 1

----------------------------------------------------------------------------
(* Vocabulary of the properties of main.rs *)

\* a step that is one iteration of the receive loop
RecvStep == Len(tx') < Len(tx)

\* the frame received is one the loop records: speech, or at most 3 segments
\* after the last speech frame
Recorded ==
    predict' \/ (IsSome(speech_segment) /\ segment + 1 - Unwrap(speech_segment) <= 3)

\* the frame does not fit in the remaining capacity of the accumulator
DoesNotFit == head + RLen(Head(tx)) > ACCUMULATOR_LEN

\* the step called the closure `dispatch`, which now waits for the decoder
DispatchStep == RecvStep /\ main_state' = "decoding"

\* the decoder is done and the step ran the closure `dispatch` to its end
ReturnStep == main_state = "decoding" /\ main_state' # "decoding"

\* the step wrote the leftover of the frame after a forced dispatch
LeftoverStep == main_state = "reopening" /\ main_state' # "reopening"

(* C5: when a frame to be recorded does not fit in the remaining capacity of  *)
(* the accumulator, the part that fits is written and the buffer is           *)
(* dispatched with head at exactly the capacity: the slice is the old         *)
(* contents followed by that part, ACCUMULATOR_LEN samples.  Afterwards the   *)
(* accumulator is the pre-roll, the leftover of the frame and zeros, head is  *)
(* HEAD_ZERO plus the leftover length and the speech window is open.  The     *)
(* used part followed by the leftover is the frame.                           *)
C5_SplitAtCapacity ==
    /\ [][(RecvStep /\ Recorded /\ DoesNotFit) =>
            LET frame == Head(tx)
                fits == ACCUMULATOR_LEN - head
            IN  /\ DispatchStep
                /\ head' = ACCUMULATOR_LEN
                /\ RLen(decode_arg') = ACCUMULATOR_LEN
                /\ decode_arg' = RCat(RTake(accumulator, head), RTake(frame, fits))
                /\ decode_arg' = accumulator'
                /\ leftover' = Some(RDrop(frame, fits))
                /\ RCat(RDrop(decode_arg', head), Unwrap(leftover')) = frame
         ]_vars
    /\ []((main_state = "decoding" /\ IsSome(leftover)) =>
            (head = ACCUMULATOR_LEN /\ decode_arg = accumulator))
    /\ [][LeftoverStep =>
            LET rest == Unwrap(leftover)
            IN  /\ head' = HEAD_ZERO + RLen(rest)
                /\ accumulator' = RCat(RCat(Zeros(HEAD_ZERO), rest),
                                       Zeros(ACCUMULATOR_LEN - head'))
                /\ IsSome(speech_segment')
                /\ main_state' = "running"
         ]_vars

(* C10: the channels between the producers and the consumers are bounded: while *)
(* the consumers are blocked and the producers run, whatever is queued, frames  *)
(* in main.rs and VadActivity events in audio_loop, is queued in a channel that *)
(* was created with a fixed capacity, and is within that capacity.              *)
C10_BoundedChannel ==
    \A queued \in {Len(tx), Len(activity)} :
        queued > 0 => (IsSome(ChannelCapacity) /\ queued <= Unwrap(ChannelCapacity))

----------------------------------------------------------------------------
(* C11: the receive loop of main.rs ends only by disconnection of the channel: *)
(* whenever the loop is no longer running it has left through the Err of       *)
(* rx.recv(), with the stream stopped (the sender dropped) and every queued     *)
(* frame handled; no sequence of frames and classification results ends it     *)
(* while the sender is alive.                                                  *)
C11_OnlyDisconnectionEnds ==
    main_state \notin {"running", "decoding", "reopening"} =>
        (main_state = "done" /\ stream # "playing" /\ tx = <<>>)

(* C17: the branch panic!("should not be reachable") of the receive loop is *)
(* unreachable: head < accumulator.len() whenever a frame is about to be    *)
(* recorded, also under speech that spans several forced dispatches.        *)
C17_PanicUnreachable ==
    /\ main_state # "panicked"
    /\ (main_state = "running" /\ IsSome(speech_segment)) => head < ACCUMULATOR_LEN

(* C12: an utterance of less than one second, pre-roll included, never reaches *)
(* the transcription engine: the slice the dispatch closure of main.rs hands   *)
(* to decode_first or decode_bin, and the input Whisper::transcribe hands to   *)
(* the engine, have at least SAMPLE_RATE samples.                              *)
C12_ShortNeverDecoded ==
    /\ decode_arg # <<>> => RLen(decode_arg) >= SAMPLE_RATE
    /\ engine_input # <<>> => RLen(engine_input) >= SAMPLE_RATE

(* C13: Whisper::audio_buf(sample_count) panics only for a sample_count bigger *)
(* than MAX_WHISPER_FRAME; every call with a smaller or equal count returns,   *)
(* records samples_in_buf = sample_count and gives a slice behind the pre-roll *)
(* inside the buffer.                                                          *)
C13_PanicsOnlyAbove ==
    /\ consumer = "audio_buf assertion failed" => requested_count > MAX_WHISPER_FRAME
    /\ (consumer = "running" /\ whisper_calls > 0) =>
           /\ samples_in_buf = requested_count
           /\ RLen(buf) = WHISPER_PREPEND_SILENCE + MAX_WHISPER_FRAME
           /\ RTake(buf, WHISPER_PREPEND_SILENCE) = Zeros(WHISPER_PREPEND_SILENCE)

----------------------------------------------------------------------------
(* Vocabulary of the properties of the frame accumulators *)

\* the frames of a channel one after the other
RECURSIVE Concat(_)
Concat(chan) == IF chan = <<>> THEN <<>> ELSE RCat(Head(chan), Concat(Tail(chan)))

\* samples that have left the staging ring of the Vad
Consumed == next_sample - 1 - RLen(ring)

(* C14: for chunks of arbitrary sizes both frame accumulators yield frames of *)
(* exactly 480 samples, keep fewer than 480 samples staged once a chunk is     *)
(* processed, and preserve the stream.  In main.rs the frames sent followed by *)
(* the staged samples are the samples received, in order.  In the Vad, while   *)
(* the staging ring has room, the ring is the tail of the samples received,    *)
(* whole frames have left it, every iteration of output_to takes the next 480  *)
(* samples, and the pop of a frame never comes short.                          *)
C14_FramesPreserveStream ==
    /\ [](\A i \in 1..Len(tx) : RLen(tx[i]) = VAD_FRAME)
    /\ [](RLen(next_vad_frame) < VAD_FRAME)
    /\ [](RCat(Concat(tx), next_vad_frame) = Samples(1, mic_next - 1))
    /\ [](pc = "idle" => RLen(ring) < VAD_FRAME)
    /\ [](ring = Samples(Consumed + 1, RLen(ring)))
    /\ [](Consumed % VAD_FRAME = 0)
    /\ []((pc = "poll" /\ RLen(ring) >= VAD_FRAME) => PopCount(ring, VAD_FRAME) = VAD_FRAME)
    /\ [][FrameStep =>
            /\ RTake(ring, VAD_FRAME) = Samples(Consumed + 1, VAD_FRAME)
            /\ ring' = RDrop(ring, VAD_FRAME)
            /\ Consumed' = Consumed + VAD_FRAME
         ]_vars

\* chunks of three different lengths were received on both sides; frames were
\* yielded and a leftover is staged on both sides
C14_Witness ==
    /\ Len(tx) >= 3 /\ RLen(next_vad_frame) = 200
    /\ pc = "idle" /\ Consumed >= 2 * VAD_FRAME /\ RLen(ring) = 224

\* the first sample of a non-empty slice is a sample of the audio source
StartsRecorded(b) == b # <<>> /\ b[1][1] > 0

(* C15: every buffer handed to the transcription engine begins with the pre-roll *)
(* of 11200 zero samples.  In main.rs the first HEAD_ZERO samples of the         *)
(* accumulator are zero in every state, head never goes below HEAD_ZERO, and     *)
(* every slice handed to decode_first or decode_bin, and every buffer            *)
(* decode_first hands to the engine, is the zero pre-roll followed by recorded   *)
(* samples.  In Whisper the first WHISPER_PREPEND_SILENCE entries of buf stay    *)
(* zero whatever is written through audio_buf, and the input of the engine       *)
(* starts with them.                                                             *)
C15_PreRollAlwaysFirst ==
    /\ RTake(accumulator, HEAD_ZERO) = Zeros(HEAD_ZERO)
    /\ head >= HEAD_ZERO
    /\ decode_arg # <<>> =>
           /\ RTake(decode_arg, HEAD_ZERO) = Zeros(HEAD_ZERO)
           /\ StartsRecorded(RDrop(decode_arg, HEAD_ZERO))
    /\ float_samples # <<>> =>
           /\ RTake(float_samples, HEAD_ZERO) = Zeros(HEAD_ZERO)
           /\ StartsRecorded(RDrop(float_samples, HEAD_ZERO))
    /\ RTake(buf, WHISPER_PREPEND_SILENCE) = Zeros(WHISPER_PREPEND_SILENCE)
    /\ engine_input # <<>> =>
           /\ RTake(engine_input, WHISPER_PREPEND_SILENCE) = Zeros(WHISPER_PREPEND_SILENCE)
           /\ StartsRecorded(RDrop(engine_input, WHISPER_PREPEND_SILENCE))

(* C16: get_microphone_by_name returns Err for every device configuration *)
(* with more than 2 channels, and for every StreamConfig it returns Ok the *)
(* panic "configs with n channels are not supported" of audio_loop is      *)
(* unreachable.                                                            *)
C16_UnsupportedChannelsRejected ==
    /\ (pc # "start" /\ device.channels > 2) => (config = None /\ pc = "exit")
    /\ pc # "panicked"

(* C18: while an utterance is open and does not end, an iteration of output_to   *)
(* appends its frame to the utterance ring, as far as the ring has room, and     *)
(* adds what was appended to current_speech_samples exactly when the frame is a  *)
(* speech frame or a non-speech frame with silence run at most 3.  A non-speech  *)
(* frame with silence run 4 to 7 changes neither the ring nor                    *)
(* current_speech_samples nor last_speech_frame, advances current_frame and      *)
(* emits no event.                                                               *)
C18_LingerThenDeadZone ==
    [][(FrameStep /\ IsSome(last_speech_frame) /\ ~EndStep) =>
        LET silence_run == current_frame + 1 - Unwrap(last_speech_frame)
            room == final_cap - RLen(final_ring)
            frame == RTake(ring, VAD_FRAME)
        IN  /\ (is_speech' \/ silence_run <= 3) =>
                   /\ Written = Min(VAD_FRAME, room)
                   /\ final_ring' = RCat(final_ring, RTake(frame, Written))
                   /\ current_speech_samples' = current_speech_samples + Written
            /\ (~is_speech' /\ silence_run > 3) =>
                   /\ silence_run \in 4..7
                   /\ UNCHANGED <<final_ring, current_speech_samples, last_speech_frame,
                                  activity, status>>
                   /\ current_frame' = current_frame + 1
                   /\ pc' = "poll"
      ]_vars

\* six non-speech frames followed the only speech frame: three were recorded in
\* whole with it, three were passed over
C18_Witness ==
    /\ last_speech_frame = Some(0) /\ current_frame = 6
    /\ ~is_speech /\ pc = "poll"
    /\ current_speech_samples = 4 * VAD_FRAME
    /\ final_ring = Samples(next_sample - RLen(ring) - 7 * VAD_FRAME, 4 * VAD_FRAME)

(* C19: in the receive loop of main.rs the decisions on a frame received while *)
(* an utterance is open are those of the endpointing rule of Vad::output_to on *)
(* the same classification and silence run (frames since the last speech       *)
(* frame): the utterance is dispatched exactly when the frame is non-speech    *)
(* with silence run at least 8, the dispatched slice does not hold that frame, *)
(* and otherwise the frame is recorded exactly when it is speech or its        *)
(* silence run is at most 3.                                                   *)
C19_AgreesWithVad ==
    [][(RecvStep /\ IsSome(speech_segment) /\ ~DoesNotFit) =>
        LET silence_run == segment + 1 - Unwrap(speech_segment)
            dispatched == DispatchStep
            recorded == head' > head
        IN  /\ dispatched <=> EndsUtterance(predict', silence_run)
            /\ dispatched => decode_arg' = RTake(accumulator, head)
            /\ ~dispatched => (recorded <=> RecordsFrame(predict', silence_run))
      ]_vars

(* C20: in every state of the receive loop of main.rs HEAD_ZERO <= head <=       *)
(* accumulator.len(), the accumulator keeps its length (no write goes past its   *)
(* end) and every slice handed to decode_first or decode_bin has at most 30 s of *)
(* samples, so that decode_first finds room for it in float_samples.  A forced   *)
(* dispatch hands over the whole accumulator, a dispatch at the end of an        *)
(* utterance the samples up to head.  After every dispatch, when the closure     *)
(* dispatch returns, head = HEAD_ZERO, speech_segment = None, segment = 0 and    *)
(* the accumulator is all zero; the leftover of a frame that was split is        *)
(* written into that state, at HEAD_ZERO.                                        *)
C20_HeadWithinAccumulator ==
    /\ [](HEAD_ZERO <= head /\ head <= ACCUMULATOR_LEN)
    /\ [](RLen(accumulator) = ACCUMULATOR_LEN)
    /\ [](RLen(decode_arg) <= ACCUMULATOR_LEN)
    /\ [](decode_arg # <<>> =>
            /\ ~DecodeFirstPanics(decode_arg)
            /\ RLen(float_samples) = SAMPLE_RATE * 30
            /\ RTake(float_samples, RLen(decode_arg)) = decode_arg)
    /\ [][DispatchStep =>
            LET forced == Recorded /\ DoesNotFit
            IN  /\ RLen(decode_arg') = IF forced THEN ACCUMULATOR_LEN ELSE head
                /\ head' = RLen(decode_arg')
                /\ IsSome(leftover') <=> forced
         ]_vars
    /\ [][ReturnStep =>
            /\ head' = HEAD_ZERO
            /\ speech_segment' = None
            /\ segment' = 0
            /\ accumulator' = Zeros(ACCUMULATOR_LEN)
         ]_vars
    /\ [](main_state = "reopening" =>
            /\ head = HEAD_ZERO /\ speech_segment = None /\ segment = 0
            /\ HEAD_ZERO + RLen(Unwrap(leftover)) <= ACCUMULATOR_LEN)

\* after forced dispatches the accumulator is full to its last sample, with no
\* dispatch pending
C20_Witness ==
    /\ head = ACCUMULATOR_LEN
    /\ main_state = "running"
    /\ RLen(decode_arg) = ACCUMULATOR_LEN

----------------------------------------------------------------------------
(* C21: audio_loop runs each chunk to completion and terminates.  A call that  *)
(* has started returns; on return fewer than VAD_FRAME samples are staged;     *)
(* what output_to returns to the loop before that is SpeechStart or SpeechEnd, *)
(* and the loop sends it before it polls again, so the events queued are the   *)
(* events produced, in order; a send to a receiver that has hung up queues     *)
(* nothing, and the loop polls on without a panic.                             *)
C21_RunsToCompletion ==
    /\ (pc # "idle") ~> (pc = "idle")
    /\ [](pc \in {"idle", "poll", "send"})
    /\ [](pc = "idle" => RLen(ring) < VAD_FRAME)
    /\ [](pc = "send" => status.kind \in {"SpeechStart", "SpeechEnd"})
    /\ [][(pc = "send" /\ pc' # "send") =>
            /\ pc' = "poll"
            /\ activity' = IF consumer = "running" THEN Append(activity, status)
                           ELSE activity
         ]_vars
    /\ [](consumer = "running" =>
            /\ Alternates(EventKinds)
            /\ EventKinds[Len(EventKinds)] = "SpeechStart" <=> IsSome(last_speech_frame))

\* the receiver hung up after a whole utterance; audio_loop has since opened a
\* second utterance, sent its SpeechStart to nobody and returned with a leftover
C21_Witness ==
    /\ consumer = "hung up"
    /\ pc = "idle" /\ status.kind = "Speech"
    /\ Kinds(activity) = <<"SpeechStart", "SpeechEnd">>
    /\ RLen(ring) > 0

(* C22: the staging ring of the Vad drops no audio when the chunks are within  *)
(* the device buffer size.  With the capacity Vad::try_new gives it, max(2 *   *)
(* buffer_size, 2 * VAD_FRAME), and audio_loop draining it below one frame     *)
(* after each chunk, every push_slice of Vad::input of a chunk of at most      *)
(* buffer_size samples stores the whole chunk, and the ring is always the tail *)
(* of the samples received.                                                    *)
C22_StagingNeverDrops ==
    /\ [](RLen(ring) <= ring_cap)
    /\ [](ring = Samples(Consumed + 1, RLen(ring)))
    /\ [][(pc = "idle" /\ pc' = "poll") =>
            LET len == next_sample' - next_sample
            IN  /\ len <= Unwrap(config).buffer_size
                /\ RLen(ring) + len <= ring_cap
                /\ PushCount(ring, ring_cap, Samples(next_sample, len)) = len
                /\ ring' = RCat(ring, Samples(next_sample, len))
         ]_vars

\* a chunk of a whole device buffer came on top of a leftover of one sample less
\* than a frame, and one more sample would not have fitted
C22_Witness ==
    /\ pc = "poll"
    /\ RLen(ring) = (VAD_FRAME - 1) + Unwrap(config).buffer_size
    /\ RLen(ring) = ring_cap - 1

====
